---- MODULE Spec2Model ----
(***************************************************************************)
(* Model of custom_components/color_temperature_light_mixer/helper.py:     *)
(* TemperatureCalculator.current_temperature and                           *)
(* BrightnessCalculator.compute_brightnesses, together with the two        *)
(* homeassistant.util.color conversions they call.                         *)
(*                                                                         *)
(* Python floats are IEEE-754 binary64.  The conversions divide, multiply  *)
(* and round floats, and the direction in which an exact tie x.5 is        *)
(* perturbed decides the integer that round() returns, so the arithmetic   *)
(* is modelled bit-exactly: a float is a sign, a 53-bit significand held   *)
(* in limbs, and a binary exponent; every operation computes the exact     *)
(* result and rounds it to nearest, ties to even.                          *)
(***************************************************************************)
EXTENDS Integers, Sequences, FiniteSets, TLC

(***************************************************************************)
(* Every operator below reads each of its arguments once, binding it to a  *)
(* name in a one-element set, so that an argument is computed once,        *)
(* before the operator's body, however deep the expression it comes from.  *)
(***************************************************************************)
The(S) == CHOOSE r \in S : TRUE

(***************************************************************************)
(* Unsigned big integers: four limbs, least significant first.             *)
(***************************************************************************)
LimbBits == 26
Limb == 2^LimbBits

BZero == <<0, 0, 0, 0>>

BOne == <<1, 0, 0, 0>>

BInt(n0) == The({<<n % Limb, n \div Limb, 0, 0>> : n \in {n0}})

BIsZero(a) == a = BZero

BOdd(a) == a[1] % 2 = 1

BAdd(a0, b0) == The({
  LET c1 == (a[1] + b[1]) \div Limb
      c2 == (a[2] + b[2] + c1) \div Limb
      c3 == (a[3] + b[3] + c2) \div Limb
  IN  <<(a[1] + b[1]) % Limb, (a[2] + b[2] + c1) % Limb,
        (a[3] + b[3] + c2) % Limb, (a[4] + b[4] + c3) % Limb>> : a \in {a0}, b \in {b0}})

BDbl(a0) == The({BAdd(a, a) : a \in {a0}})

BInc(a) == BAdd(a, BOne)

BGeq(a0, b0) == The({
  IF a[4] # b[4] THEN a[4] > b[4]
  ELSE IF a[3] # b[3] THEN a[3] > b[3]
  ELSE IF a[2] # b[2] THEN a[2] > b[2]
  ELSE a[1] >= b[1] : a \in {a0}, b \in {b0}})

\* a - b, for a >= b
BSub(a0, b0) == The({
  LET w1 == IF a[1] < b[1] THEN 1 ELSE 0
      w2 == IF a[2] - w1 < b[2] THEN 1 ELSE 0
      w3 == IF a[3] - w2 < b[3] THEN 1 ELSE 0
  IN  <<a[1] - b[1] + w1 * Limb, a[2] - w1 - b[2] + w2 * Limb,
        a[3] - w2 - b[3] + w3 * Limb, a[4] - w3 - b[4]>> : a \in {a0}, b \in {b0}})

\* a * n for a small int n >= 0
RECURSIVE BMulSmall(_, _)
BMulSmall(a0, n0) == The({
  IF n = 0 THEN BZero
  ELSE IF n % 2 = 1 THEN BAdd(BDbl(BMulSmall(a, n \div 2)), a)
  ELSE BDbl(BMulSmall(a, n \div 2)) : a \in {a0}, n \in {n0}})

\* floor(a / 2^k)
BShr(a0, k0) == The({
  IF k >= 4 * LimbBits THEN BZero
  ELSE LET q == k \div LimbBits
           p == 2^(k % LimbBits)
           h == 2^(LimbBits - (k % LimbBits))
           b == [i \in 1..5 |-> IF i + q <= 4 THEN a[i + q] ELSE 0]
       IN  [i \in 1..4 |-> b[i] \div p + (b[i + 1] % p) * h] : a \in {a0}, k \in {k0}})

\* a has a 1 among its k lowest bits
BLost(a0, k0) == The({
  IF k >= 4 * LimbBits THEN ~BIsZero(a)
  ELSE \/ \E i \in 1..(k \div LimbBits) : a[i] # 0
       \/ a[k \div LimbBits + 1] % 2^(k % LimbBits) # 0 : a \in {a0}, k \in {k0}})

\* a * 2^k, the bits above the fourth limb dropped
BShl(a0, k0) == The({
  LET q == k \div LimbBits
      p == 2^(LimbBits - (k % LimbBits))
      h == 2^(k % LimbBits)
      b == [i \in 0..4 |-> IF i - q >= 1 THEN a[i - q] ELSE 0]
  IN  [i \in 1..4 |-> (b[i] % p) * h + b[i - 1] \div p] : a \in {a0}, k \in {k0}})

BHlv(a) == BShr(a, 1)

\* floor(a / 2^k) with every bit shifted out or-ed into the lowest bit
BShrJam(a0, k0) == The({
  IF BLost(a, k) /\ ~BOdd(h) THEN BInc(h) ELSE h :
    h \in {BShr(a, k) : a \in {a0}, k \in {k0}}, a \in {a0}, k \in {k0}})

\* the number of bits of a
BBitLen(a0) == The({
  LET t == IF a[4] # 0 THEN 4 ELSE IF a[3] # 0 THEN 3 ELSE IF a[2] # 0 THEN 2 ELSE 1
  IN  LimbBits * (t - 1) + Cardinality({j \in 0..(LimbBits - 1) : 2^j <= a[t]}) :
    a \in {a0}})

\* the value of a big integer below 2^31
BToInt(a0) == The({a[1] + a[2] * Limb : a \in {a0}})

(***************************************************************************)
(* binary64: [s |-> 1 or -1, m |-> significand, e |-> exponent], the value *)
(* s * m * 2^e with m = 0 or 2^52 <= m < 2^53.                             *)
(***************************************************************************)
Abs(n) == IF n < 0 THEN -n ELSE n
Sgn(n) == IF n < 0 THEN -1 ELSE 1

B2p53 == <<0, 0, 2, 0>>
B2p52 == <<0, 0, 1, 0>>

FZero(s) == [s |-> s, m |-> BZero, e |-> 0]
FIsZero(x) == BIsZero(x.m)

\* the 54 leading bits n54 of a nonzero n, shifted by sh, rounded to 53 bits
\* to nearest, ties to even; st says that bits below n54 were lost
Round54(s, n54, e, st) ==
  The({IF r = B2p53 THEN [s |-> s, m |-> B2p52, e |-> e + 2]
       ELSE [s |-> s, m |-> r, e |-> e + 1] :
         r \in {IF BOdd(n) /\ (st \/ BOdd(m)) THEN BInc(m) ELSE m :
                  m \in {BHlv(n) : n \in {n54}}, n \in {n54}}})

\* s * n * 2^e rounded to nearest, ties to even; sticky says that the exact
\* value lies strictly above n * 2^e and below (n + 1) * 2^e (then n has
\* at least 54 bits)
RoundPack(s, n0, e, sticky) == The({
  IF BIsZero(n) THEN FZero(s)
  ELSE LET sh == BBitLen(n) - 54
       IN  Round54(s, IF sh > 0 THEN BShr(n, sh) ELSE BShl(n, -sh), e + sh,
                   sticky \/ (sh > 0 /\ BLost(n, sh))) : n \in {n0}})

\* float(n) for an int n
FromInt(n0) == The({RoundPack(Sgn(n), BInt(Abs(n)), 0, FALSE) : n \in {n0}})

\* one step of binary long division on <<quotient, remainder>>
DivStep(p0, d0) == The({
  IF BGeq(p[2], d) THEN <<BInc(BDbl(p[1])), BDbl(BSub(p[2], d))>>
  ELSE <<BDbl(p[1]), BDbl(p[2])>> : p \in {p0}, d \in {d0}})

\* k steps of binary long division on p = <<quotient, remainder>>
RECURSIVE DivBits(_, _, _)
DivBits(p0, d0, k0) == The({
  IF k = 1 THEN DivStep(p, d)
  ELSE The({IF BIsZero(a[2]) THEN <<BShl(a[1], k - k \div 2), BZero>>
            ELSE DivBits(a, d, k - k \div 2) : a \in {DivBits(p, d, k \div 2)}}) :
    p \in {p0}, d \in {d0}, k \in {k0}})

\* x / y for y # 0: 55 quotient bits, the remainder as the sticky bit
FDiv(x0, y0) == The({
  IF FIsZero(x) THEN FZero(x.s * y.s)
  ELSE The({RoundPack(x.s * y.s, qr[1], x.e - y.e - 54, ~BIsZero(qr[2])) :
              qr \in {DivBits(<<BZero, x.m>>, y.m, 55)}}) : x \in {x0}, y \in {y0}})

\* x * n for an int n
FMulInt(x0, n0) == The({
  IF FIsZero(x) \/ n = 0 THEN FZero(x.s * Sgn(n))
  ELSE RoundPack(x.s * Sgn(n), BMulSmall(x.m, Abs(n)), x.e, FALSE) :
    x \in {x0}, n \in {n0}})

\* big + small for nonzero floats with big.e >= small.e; three extra low
\* bits keep guard and sticky through the alignment
FAddAligned(big, small) ==
  The({IF big.s = small.s THEN RoundPack(big.s, BAdd(a, b), big.e - 3, FALSE)
       ELSE IF a = b THEN FZero(1)
       ELSE IF BGeq(a, b) THEN RoundPack(big.s, BSub(a, b), big.e - 3, FALSE)
       ELSE RoundPack(small.s, BSub(b, a), big.e - 3, FALSE) :
         a \in {BShl(big.m, 3)},
         b \in {BShrJam(BShl(small.m, 3), big.e - small.e)}})

\* x + y
FAdd(x0, y0) == The({
  IF FIsZero(x) /\ FIsZero(y) THEN FZero(IF x.s = -1 /\ y.s = -1 THEN -1 ELSE 1)
  ELSE IF FIsZero(x) THEN y
  ELSE IF FIsZero(y) THEN x
  ELSE IF x.e >= y.e THEN FAddAligned(x, y)
  ELSE FAddAligned(y, x) : x \in {x0}, y \in {y0}})

FNeg(x0) == The({[x EXCEPT !.s = -x.s] : x \in {x0}})

\* math.floor(x) for x >= 0 below 2^31
FloorPos(x0) == The({IF FIsZero(x) THEN 0 ELSE BToInt(BShr(x.m, -x.e)) : x \in {x0}})

\* round(x): nearest int, ties to even
PyRound(x0) == The({
  IF FIsZero(x) THEN 0
  ELSE The({LET i    == BToInt(BShr(j, 2))
                half == (j[1] \div 2) % 2 = 1
                rest == j[1] % 2 = 1
                up   == half /\ (rest \/ i % 2 = 1)
            IN  x.s * (IF up THEN i + 1 ELSE i) :
              j \in {BShrJam(BShl(x.m, 2), -x.e)}}) : x \in {x0}})

FEq(x, y) == (FIsZero(x) /\ FIsZero(y)) \/ x = y

Min(a, b) == IF a <= b THEN a ELSE b
Max(a, b) == IF a >= b THEN a ELSE b

(***************************************************************************)
(* homeassistant.util.color, as imported by helper.py.  A call that raises *)
(* is the record [exc |-> "ZeroDivisionError"]; a call that returns is     *)
(* [exc |-> "None", val |-> the value].  Kelvin arguments are >= 1.        *)
(***************************************************************************)
Returns(v) == [exc |-> "None", val |-> v]
Raises(e) == [exc |-> e, val |-> <<>>]

\* math.floor(1000000 / kelvin_temperature) for an int 1 <= kelvin <= 10^6.
\* The float quotient is exact when kelvin divides 10^6; otherwise the true
\* quotient is at least 1/kelvin >= 10^-6 away from an integer and the float
\* within 2 * 10^-10 of it, so the floor is that of the exact quotient.
color_temperature_kelvin_to_mired(kelvin_temperature) ==
  1000000 \div kelvin_temperature

\* math.floor(1000000 / mired_temperature), mired_temperature a float > 0
color_temperature_mired_to_kelvin(mired_temperature) ==
  FloorPos(FDiv(FromInt(1000000), mired_temperature))

\* (r, g, b, cw, ww) for a colour temperature and a brightness
color_temperature_to_rgbww(temperature, brightness, min_kelvin, max_kelvin) ==
  LET max_mireds  == color_temperature_kelvin_to_mired(min_kelvin)
      min_mireds  == color_temperature_kelvin_to_mired(max_kelvin)
      mired       == color_temperature_kelvin_to_mired(temperature)
      mired_range == max_mireds - min_mireds
      cold        == FMulInt(FDiv(FromInt(max_mireds - mired), FromInt(mired_range)),
                             brightness)
      warm        == FAdd(FromInt(brightness), FNeg(cold))
  IN  IF mired_range = 0 THEN Raises("ZeroDivisionError")
      ELSE Returns(<<0, 0, 0, PyRound(cold), PyRound(warm)>>)

\* (color_temperature, brightness) for the two white levels
white_levels_to_color_temperature(cold, warm, min_kelvin, max_kelvin) ==
  LET max_mireds == color_temperature_kelvin_to_mired(min_kelvin)
      min_mireds == color_temperature_kelvin_to_mired(max_kelvin)
      c          == FDiv(FromInt(cold), FromInt(255))
      brightness == FAdd(FDiv(FromInt(warm), FromInt(255)), c)
      mired      == FAdd(FMulInt(FDiv(c, brightness), min_mireds - max_mireds),
                         FromInt(max_mireds))
  IN  IF FIsZero(brightness) THEN Returns(<<min_kelvin, 0>>)
      ELSE IF FIsZero(mired) THEN Raises("ZeroDivisionError")
      ELSE Returns(<<color_temperature_mired_to_kelvin(mired),
                     Min(255, PyRound(FMulInt(brightness, 255)))>>)

rgbww_to_color_temperature(rgbww, min_kelvin, max_kelvin) ==
  white_levels_to_color_temperature(rgbww[4], rgbww[5], min_kelvin, max_kelvin)

(***************************************************************************)
(* helper.py                                                               *)
(***************************************************************************)
BRIGHTNESS_RANGE == <<1, 255>>

BrightnessTemperaturePriority == {"BRIGHTNESS", "TEMPERATURE", "MIXED"}

\* round(n) for an int n
PyRoundInt(n) == n

\* mutant: the BRIGHTNESS priority keeps the full scale as the emitters' total
compute_brightnesses_mix_by_priority(self) ==
  color_temperature_to_rgbww(self.target_temperature_kelvin,
                             IF self.priority = "BRIGHTNESS" THEN BRIGHTNESS_RANGE[2]
                             ELSE self.target_brightness,
                             self.warm_temperature_kelvin, self.cold_temperature_kelvin)

\* mutant: the two emitters' temperatures passed in the wrong order
compute_brightnesses_mix_swapped_kelvin(self) ==
  color_temperature_to_rgbww(self.target_temperature_kelvin, self.target_brightness,
                             self.cold_temperature_kelvin, self.warm_temperature_kelvin)

\* lines 103-108: the forward mapping applied to the calculator's fields
compute_brightnesses_mix(self) ==
  color_temperature_to_rgbww(self.target_temperature_kelvin, self.target_brightness,
                             self.warm_temperature_kelvin, self.cold_temperature_kelvin)

\* mutant: the clamp left out
clamp_brightness_missing(brightness) == brightness

\* line 114 / line 115: one channel clamped to the upper bound
clamp_brightness(brightness) == Min(brightness, BRIGHTNESS_RANGE[2])

\* mutant: the pair returned as (cold, warm)
compute_brightnesses_return_swapped(warm_brightness, cold_brightness) ==
  <<PyRoundInt(Min(cold_brightness, BRIGHTNESS_RANGE[2])),
    PyRoundInt(Min(warm_brightness, BRIGHTNESS_RANGE[2]))>>

\* lines 114-116: both channels clamped, rounded, returned as (warm, cold)
compute_brightnesses_return(warm_brightness, cold_brightness) ==
  <<PyRoundInt(clamp_brightness(warm_brightness)),
    PyRoundInt(clamp_brightness(cold_brightness))>>

\* BrightnessCalculator.compute_brightnesses run on its own
compute_brightnesses(self) ==
  LET r == compute_brightnesses_mix(self)
  IN  IF r.exc # "None" THEN r
      ELSE Returns(compute_brightnesses_return(r.val[5], r.val[4]))

\* mutant: the two white channels passed in the wrong order
current_temperature_convert_swapped(self) ==
  rgbww_to_color_temperature(<<0, 0, 0, self.warm_brightness, self.cold_brightness>>,
                             self.warm_temperature_kelvin, self.cold_temperature_kelvin)

\* lines 54-58: the inverse mapping applied to the calculator's fields
current_temperature_convert(self) ==
  rgbww_to_color_temperature(<<0, 0, 0, self.cold_brightness, self.warm_brightness>>,
                             self.warm_temperature_kelvin, self.cold_temperature_kelvin)

\* mutant: the clamp without its upper bound
current_temperature_return_no_upper(self, combined_temperature) ==
  Max(self.warm_temperature_kelvin, combined_temperature)

\* lines 61-64: the clamp between the two emitters' temperatures
current_temperature_return(self, combined_temperature) ==
  Max(self.warm_temperature_kelvin, Min(self.cold_temperature_kelvin, combined_temperature))

\* TemperatureCalculator.current_temperature run on its own
current_temperature(self) ==
  LET r == current_temperature_convert(self)
  IN  IF r.exc # "None" THEN r
      ELSE Returns(current_temperature_return(self, r.val[1]))

(***************************************************************************)
(* Inputs.  Nothing validates a calculator's fields, so the target may lie *)
(* outside the emitters' range and the brightness above the scale.         *)
(***************************************************************************)
TempSteps == 6
OutOfRangeKelvin == 500
SmallBrightness == 2
BrightnessStride == 50
MaxTargetBrightness == 256

\* (warm_temperature_kelvin, cold_temperature_kelvin) of the two emitters
KelvinPairs == {<<2700, 6500>>, <<2000, 4000>>, <<6400, 6530>>, <<6500, 6510>>}

TargetTemperatures(warm, cold) ==
  {warm + (i * (cold - warm)) \div TempSteps : i \in 0..TempSteps}
    \cup {(warm + cold) \div 2, warm - OutOfRangeKelvin, cold + OutOfRangeKelvin}

TargetBrightnesses ==
  {b \in 1..MaxTargetBrightness :
     b <= SmallBrightness \/ b % BrightnessStride = 0 \/ b >= BRIGHTNESS_RANGE[2] - 1}

\* brightness levels read back from the two lights
BrightnessReadings == {0, 1, 2, 128, 254, 255}

BrightnessCalculator(k, t, b, p) ==
  [warm_temperature_kelvin |-> k[1], cold_temperature_kelvin |-> k[2],
   target_temperature_kelvin |-> t, target_brightness |-> b, priority |-> p]

TemperatureCalculator(wb, wk, cb, ck) ==
  [warm_brightness |-> wb, warm_temperature_kelvin |-> wk,
   cold_brightness |-> cb, cold_temperature_kelvin |-> ck]

BrightnessCalculators ==
  UNION {{BrightnessCalculator(k, t, b, p) :
            t \in TargetTemperatures(k[1], k[2]), b \in TargetBrightnesses,
            p \in BrightnessTemperaturePriority} : k \in KelvinPairs}

TemperatureCalculators ==
  {TemperatureCalculator(wb, k[1], cb, k[2]) :
     wb \in BrightnessReadings, cb \in BrightnessReadings, k \in KelvinPairs}

\* the calculators of the callers that run side by side
ConcurrentBrightnessCalculators ==
  {BrightnessCalculator(<<2700, 6500>>, 4600, b, p) :
     b \in {100, 200}, p \in BrightnessTemperaturePriority}

ConcurrentTemperatureCalculators == {TemperatureCalculator(10, 6400, 255, 6530)}

Callers == {1, 2}

NoBrightnessCalculator == BrightnessCalculator(<<0, 0>>, 0, 0, "MIXED")
NoTemperatureCalculator == TemperatureCalculator(0, 0, 0, 0)
NoFrame == [cold_brightness |-> 0, warm_brightness |-> 0, combined_temperature |-> 0]

(***************************************************************************)
(* State.  Each caller owns its calculator objects and runs its calls step *)
(* by step; the steps of different callers interleave.                     *)
(***************************************************************************)
VARIABLES
  bc,            \* caller -> its BrightnessCalculator
  tc,            \* caller -> its TemperatureCalculator
  pc,            \* caller -> where the caller stands
  frame,         \* frame -> the local variables of the call in progress
  brightnesses,  \* caller -> the pair compute_brightnesses returned
  temperature,   \* caller -> the value current_temperature returned
  raised         \* caller -> the exception that ended its call, or "None"

vars == <<bc, tc, pc, frame, brightnesses, temperature, raised>>

\* mutant: the locals kept in one place shared by every call
FrameShared(c) == 1

\* every call has a frame of its own for its local variables
FrameOf(c) == c

HasBrightnessCalculator(c) ==
  pc[c] \in {"bc_ready", "bc_mixed", "bc_returned", "bc_raised",
             "fed_ready", "fed_converted", "fed_returned", "fed_raised"}

HasTemperatureCalculator(c) ==
  pc[c] \in {"tc_ready", "tc_converted", "tc_returned", "tc_raised",
             "fed_ready", "fed_converted", "fed_returned", "fed_raised"}

InitCommon ==
  /\ frame = [f \in Callers |-> NoFrame]
  /\ brightnesses = [c \in Callers |-> <<0, 0>>]
  /\ temperature = [c \in Callers |-> 0]
  /\ raised = [c \in Callers |-> "None"]

\* one caller holding a freshly constructed calculator of either class
Init ==
  /\ InitCommon
  /\ \/ /\ bc \in {[c \in Callers |-> IF c = 1 THEN b ELSE NoBrightnessCalculator] :
                     b \in BrightnessCalculators}
        /\ tc = [c \in Callers |-> NoTemperatureCalculator]
        /\ pc = [c \in Callers |-> IF c = 1 THEN "bc_ready" ELSE "absent"]
     \/ /\ bc = [c \in Callers |-> NoBrightnessCalculator]
        /\ tc \in {[c \in Callers |-> IF c = 1 THEN t ELSE NoTemperatureCalculator] :
                     t \in TemperatureCalculators}
        /\ pc = [c \in Callers |-> IF c = 1 THEN "tc_ready" ELSE "absent"]

\* every caller holding a freshly constructed calculator of either class
InitConcurrent ==
  /\ InitCommon
  /\ pc \in [Callers -> {"bc_ready", "tc_ready"}]
  /\ bc \in [Callers -> ConcurrentBrightnessCalculators \cup {NoBrightnessCalculator}]
  /\ tc \in [Callers -> ConcurrentTemperatureCalculators \cup {NoTemperatureCalculator}]
  /\ \A c \in Callers :
       /\ (bc[c] = NoBrightnessCalculator) = (pc[c] = "tc_ready")
       /\ (tc[c] = NoTemperatureCalculator) = (pc[c] = "bc_ready")

\* compute_brightnesses, lines 92-108: the forward mapping into the locals
ComputeBrightnessesMix(c) ==
  /\ pc[c] = "bc_ready"
  /\ LET r == compute_brightnesses_mix(bc[c])
     IN  IF r.exc # "None"
         THEN /\ raised' = [raised EXCEPT ![c] = r.exc]
              /\ pc' = [pc EXCEPT ![c] = "bc_raised"]
              /\ UNCHANGED frame
         ELSE /\ frame' = [frame EXCEPT ![FrameOf(c)].cold_brightness = r.val[4],
                                        ![FrameOf(c)].warm_brightness = r.val[5]]
              /\ pc' = [pc EXCEPT ![c] = "bc_mixed"]
              /\ UNCHANGED raised
  /\ UNCHANGED <<bc, tc, brightnesses, temperature>>

\* compute_brightnesses, lines 113-116: clamp, round, return
ComputeBrightnessesReturn(c) ==
  /\ pc[c] = "bc_mixed"
  /\ brightnesses' = [brightnesses EXCEPT ![c] =
       compute_brightnesses_return(frame[FrameOf(c)].warm_brightness,
                                   frame[FrameOf(c)].cold_brightness)]
  /\ pc' = [pc EXCEPT ![c] = "bc_returned"]
  /\ UNCHANGED <<bc, tc, frame, temperature, raised>>

\* the returned pair fed into a TemperatureCalculator of the same emitters
FeedTemperatureCalculator(c) ==
  /\ pc[c] = "bc_returned"
  /\ tc' = [tc EXCEPT ![c] =
       TemperatureCalculator(brightnesses[c][1], bc[c].warm_temperature_kelvin,
                             brightnesses[c][2], bc[c].cold_temperature_kelvin)]
  /\ pc' = [pc EXCEPT ![c] = "fed_ready"]
  /\ UNCHANGED <<bc, frame, brightnesses, temperature, raised>>

Fed(c) == pc[c] \in {"fed_ready", "fed_converted", "fed_returned", "fed_raised"}

\* current_temperature, lines 54-58: the inverse mapping into the local
CurrentTemperatureConvert(c) ==
  /\ pc[c] \in {"tc_ready", "fed_ready"}
  /\ LET r == current_temperature_convert(tc[c])
     IN  IF r.exc # "None"
         THEN /\ raised' = [raised EXCEPT ![c] = r.exc]
              /\ pc' = [pc EXCEPT ![c] = IF Fed(c) THEN "fed_raised" ELSE "tc_raised"]
              /\ UNCHANGED frame
         ELSE /\ frame' = [frame EXCEPT ![FrameOf(c)].combined_temperature = r.val[1]]
              /\ pc' = [pc EXCEPT ![c] = IF Fed(c) THEN "fed_converted" ELSE "tc_converted"]
              /\ UNCHANGED raised
  /\ UNCHANGED <<bc, tc, brightnesses, temperature>>

\* current_temperature, lines 60-64: clamp and return
CurrentTemperatureReturn(c) ==
  /\ pc[c] \in {"tc_converted", "fed_converted"}
  /\ temperature' = [temperature EXCEPT ![c] =
       current_temperature_return(tc[c], frame[FrameOf(c)].combined_temperature)]
  /\ pc' = [pc EXCEPT ![c] = IF Fed(c) THEN "fed_returned" ELSE "tc_returned"]
  /\ UNCHANGED <<bc, tc, frame, brightnesses, raised>>

Next ==
  \E c \in Callers :
    \/ ComputeBrightnessesMix(c)
    \/ ComputeBrightnessesReturn(c)
    \/ FeedTemperatureCalculator(c)
    \/ CurrentTemperatureConvert(c)
    \/ CurrentTemperatureReturn(c)

Spec == Init /\ [][Next]_vars

SpecConcurrent == InitConcurrent /\ [][Next]_vars

(***************************************************************************)
(* Properties                                                              *)
(***************************************************************************)
MinBrightness == BRIGHTNESS_RANGE[1]
MaxBrightness == BRIGHTNESS_RANGE[2]

\* the documented normal inputs of compute_brightnesses
ValidBrightnessCalculator(b) ==
  /\ b.warm_temperature_kelvin < b.cold_temperature_kelvin
  /\ b.target_temperature_kelvin >= b.warm_temperature_kelvin
  /\ b.target_temperature_kelvin <= b.cold_temperature_kelvin
  /\ b.target_brightness \in MinBrightness..MaxBrightness

\* the documented normal inputs of current_temperature
ValidTemperatureCalculator(t) ==
  /\ t.warm_temperature_kelvin < t.cold_temperature_kelvin
  /\ t.warm_brightness \in MinBrightness..MaxBrightness
  /\ t.cold_brightness \in MinBrightness..MaxBrightness

BrightnessesReturned(c) ==
  pc[c] \in {"bc_returned", "fed_ready", "fed_converted", "fed_returned", "fed_raised"}

TemperatureReturned(c) == pc[c] \in {"tc_returned", "fed_returned"}

\* C1: for warm < cold and both brightnesses in [1,255], current_temperature
\* returns a value between the warm and the cold emitter's temperature,
\* whatever the inverse mapping produced before the clamp.
C1_TemperatureWithinEmitters ==
  \A c \in Callers :
    TemperatureReturned(c) /\ ValidTemperatureCalculator(tc[c])
      => /\ temperature[c] >= tc[c].warm_temperature_kelvin
         /\ temperature[c] <= tc[c].cold_temperature_kelvin

\* C1 witness: the inverse mapping produced a temperature above the cold
\* emitter's and the call returned the cold emitter's temperature.
C1_Witness ==
  \E c \in Callers :
    /\ pc[c] = "tc_returned" /\ ValidTemperatureCalculator(tc[c])
    /\ frame[FrameOf(c)].combined_temperature > tc[c].cold_temperature_kelvin
    /\ temperature[c] = tc[c].cold_temperature_kelvin

\* C2 as claimed: for every valid input both returned values are in [1,255].
C2_BothWithinBrightnessRange ==
  \A c \in Callers :
    pc[c] = "bc_returned" /\ ValidBrightnessCalculator(bc[c])
      => /\ brightnesses[c][1] \in MinBrightness..MaxBrightness
         /\ brightnesses[c][2] \in MinBrightness..MaxBrightness

\* C3 as claimed: no call on documented normal inputs ends in an exception.
C3_NoException ==
  \A c \in Callers :
    /\ HasBrightnessCalculator(c) /\ ValidBrightnessCalculator(bc[c])
         => pc[c] # "bc_raised"
    /\ ~HasBrightnessCalculator(c) /\ HasTemperatureCalculator(c)
         /\ ValidTemperatureCalculator(tc[c])
         => pc[c] # "tc_raised"

StrictlyBetween(b) ==
  /\ b.warm_temperature_kelvin < b.target_temperature_kelvin
  /\ b.target_temperature_kelvin < b.cold_temperature_kelvin

C6_BoundaryAllocation ==
  \A c \in Callers :
    pc[c] = "bc_returned" /\ ValidBrightnessCalculator(bc[c])
    => /\ bc[c].target_temperature_kelvin = bc[c].warm_temperature_kelvin
            => /\ Abs(brightnesses[c][1] - bc[c].target_brightness) <= 1
               /\ brightnesses[c][2] = MinBrightness
       /\ bc[c].target_temperature_kelvin = bc[c].cold_temperature_kelvin
            => /\ Abs(brightnesses[c][2] - bc[c].target_brightness) <= 1
               /\ brightnesses[c][1] = MinBrightness

AtKelvinMidpoint(b) ==
  2 * b.target_temperature_kelvin = b.warm_temperature_kelvin + b.cold_temperature_kelvin

\* C7 as claimed: at the Kelvin midpoint with brightness 255 both values are
\* below 255 and differ by at most a quarter of the target brightness.
C7_MidpointBalanced ==
  \A c \in Callers :
    /\ pc[c] = "bc_returned" /\ ValidBrightnessCalculator(bc[c])
    /\ AtKelvinMidpoint(bc[c]) /\ bc[c].target_brightness = MaxBrightness
    => /\ brightnesses[c][1] < MaxBrightness
       /\ brightnesses[c][2] < MaxBrightness
       /\ 4 * Abs(brightnesses[c][1] - brightnesses[c][2]) <= bc[c].target_brightness

StatedMidpointCase(b) ==
  /\ b.warm_temperature_kelvin = 2700 /\ b.cold_temperature_kelvin = 6500
  /\ b.target_temperature_kelvin = 4600 /\ b.target_brightness = MaxBrightness

\* C7 amended: for warm 2700 K, cold 6500 K, target 4600 K and brightness
\* 255 the call returns (75, 180): both values below 255 and summing to
\* 255, the cold one the larger by 105.
C7_MidpointLeansCold ==
  \A c \in Callers :
    pc[c] = "bc_returned" /\ StatedMidpointCase(bc[c]) => brightnesses[c] = <<75, 180>>

\* C7 witness: the stated midpoint call has returned.
C7_Witness ==
  \E c \in Callers :
    /\ pc[c] = "bc_returned" /\ StatedMidpointCase(bc[c])
    /\ brightnesses[c][2] - brightnesses[c][1] = 105

ObjectsKept ==
  \A c \in Callers :
    /\ HasBrightnessCalculator(c) => bc'[c] = bc[c]
    /\ HasTemperatureCalculator(c) => tc'[c] = tc[c]

ReturnsAsAlone ==
  \A c \in Callers :
    /\ BrightnessesReturned(c) => brightnesses[c] = compute_brightnesses(bc[c]).val
    /\ TemperatureReturned(c) => temperature[c] = current_temperature(tc[c]).val

\* C8: under every interleaving of the callers' steps no step changes a
\* field of a calculator object, and every call returns the value the same
\* call returns when it runs alone.
C8_PureUnderInterleaving == [][ObjectsKept]_vars /\ []ReturnsAsAlone

\* C8 witness: one caller has returned while another, with a different
\* target brightness, is between the two steps of its call.
C8_Witness ==
  \E c1, c2 \in Callers :
    /\ pc[c1] = "bc_returned" /\ pc[c2] = "bc_mixed"
    /\ bc[c1].target_brightness # bc[c2].target_brightness

WarmerTargets(b) ==
  {t \in TargetTemperatures(b.warm_temperature_kelvin, b.cold_temperature_kelvin) :
     t > b.target_temperature_kelvin /\ t <= b.cold_temperature_kelvin}

NextTarget(b) == CHOOSE t \in WarmerTargets(b) : \A u \in WarmerTargets(b) : t <= u

\* C10: for every valid input the two returned values sum to the target
\* brightness within 1, and with the brightness fixed a higher target
\* temperature gives no less cold and no more warm brightness.
C10_BrightnessConserved ==
  \A c \in Callers :
    pc[c] = "bc_returned" /\ ValidBrightnessCalculator(bc[c])
    => /\ Abs(brightnesses[c][1] + brightnesses[c][2] - bc[c].target_brightness) <= 1
       /\ WarmerTargets(bc[c]) # {}
            => \A r \in {compute_brightnesses(
                           [bc[c] EXCEPT !.target_temperature_kelvin = NextTarget(bc[c])]).val} :
                 r[1] <= brightnesses[c][1] /\ r[2] >= brightnesses[c][2]

\* C10 witness: a valid call returned a mix of both emitters that sums to
\* the target brightness, and a higher target temperature remains.
C10_Witness ==
  \E c \in Callers :
    /\ pc[c] = "bc_returned" /\ ValidBrightnessCalculator(bc[c])
    /\ brightnesses[c][1] > 0 /\ brightnesses[c][2] > 0
    /\ brightnesses[c][1] + brightnesses[c][2] = bc[c].target_brightness
    /\ WarmerTargets(bc[c]) # {}

====
